---- MODULE Spec2Model ----
(***************************************************************************)
(* Model of markdown2html.py: the inline substitution pipeline             *)
(* (parse_inline_formatting), the block loop (convert_markdown_to_html,    *)
(* process_list_block) and the command-line driver (main).                 *)
(*                                                                         *)
(* A Python str is modelled as a sequence of one-character strings.  The   *)
(* only element that is not a single character is an MD5 digest, kept as   *)
(* one opaque element "md5(<text>)": the digest is an abstract function of *)
(* the hashed text.                                                        *)
(***************************************************************************)
EXTENDS Integers, Sequences, FiniteSets, TLC

VARIABLES
    argc,           \* number of positional arguments, len(sys.argv) - 1
    input_exists,   \* os.path.exists(markdown_file)
    pc,             \* position of the process in main / the block loop
    lines,          \* result of f.readlines(), line endings stripped
    i,              \* cursor into lines (0-based, as in the code)
    html_content,   \* list of emitted HTML lines
    consumed,       \* history: how many times each line index was consumed
    output,         \* content of html_file, or NoFile if never written
    exit_status,    \* argument of sys.exit, or -1 while running
    src,            \* argument of parse_inline_formatting
    cur,            \* value of its local `line` between stages
    stage           \* number of stages already applied (0..4), or -1 if idle

vars == <<argc, input_exists, pc, lines, i, html_content, consumed, output,
          exit_status, src, cur, stage>>

blockVars == <<argc, input_exists, pc, lines, i, html_content, consumed,
               output, exit_status>>

inlineVars == <<src, cur, stage>>

(***************************************************************************)
(* Bounds                                                                  *)
(***************************************************************************)
MaxParts == 3       \* delimiter/character tokens per inline test text
MaxLines == 3       \* lines per generated document
MaxHashes == 7      \* longest run of leading '#' in a generated line
MaxArgs == 3        \* positional arguments given to the driver
MaxOut == 10        \* html_content entries kept before the model stops

(***************************************************************************)
(* Strings                                                                 *)
(***************************************************************************)
IsChar(e) == Len(e) = 1

\* str.isspace(): the characters str.strip() removes and a whitespace-only
\* line is made of.  Beside the five characters with an escape, the set holds
\* as literal characters, in this order: vertical tab (0x0b), the separators
\* 0x1c, 0x1d, 0x1e and 0x1f, next line (0x85), no-break space (0xa0) and
\* ogham space mark (U+1680).  Python's remaining whitespace (U+2000 to
\* U+200A, U+2028, U+2029, U+202F, U+205F, U+3000) cannot be written in a
\* string of this language, so no string of the model holds one of them.
IsSpace(e) ==
    e \in {" ", "\t", "\n", "\r", "\f",
           "", "", "", "", "", "", " ", " "}

RECURSIVE Flat(_)
Flat(s) == IF s = <<>> THEN "" ELSE Head(s) \o Flat(Tail(s))

RECURSIVE Repeat(_, _)
Repeat(e, n) == IF n = 0 THEN <<>> ELSE <<e>> \o Repeat(e, n - 1)

MinOf(S) == CHOOSE m \in S : \A k \in S : m <= k

MaxOf(S) == CHOOSE m \in S : \A k \in S : m >= k

\* str.strip(): drop leading and trailing whitespace
strip(s) ==
    LET keep == {k \in 1..Len(s) : ~IsSpace(s[k])}
    IN  IF keep = {} THEN <<>> ELSE SubSeq(s, MinOf(keep), MaxOf(keep))

\* str.startswith(prefix)
startswith(s, prefix) ==
    /\ Len(s) >= Len(prefix)
    /\ SubSeq(s, 1, Len(prefix)) = prefix

\* f'<{name}>'
Tag(name) == <<"<">> \o name \o <<">">>

(***************************************************************************)
(* Inline formatting                                                       *)
(***************************************************************************)
\* hashlib.md5(text.encode('utf-8')).hexdigest(): one opaque element
md5_hash(text) == <<"md5(" \o Flat(text) \o ")">>

\* variant: case-sensitive deletion, re.sub(r'c', '', text)
RECURSIVE remove_c_chars_lower(_)
remove_c_chars_lower(text) ==
    IF text = <<>> THEN <<>>
    ELSE LET e == Head(text)
             rest == remove_c_chars_lower(Tail(text))
         IN  IF e = "c" THEN rest
             ELSE IF IsChar(e) THEN <<e>> \o rest
             ELSE <<"strip_c(" \o e \o ")">> \o rest

\* re.sub(r'[cC]', '', text); a digest loses whatever 'c' digits it has
RECURSIVE remove_c_chars(_)
remove_c_chars(text) ==
    IF text = <<>> THEN <<>>
    ELSE LET e == Head(text)
             rest == remove_c_chars(Tail(text))
         IN  IF e \in {"c", "C"} THEN rest
             ELSE IF IsChar(e) THEN <<e>> \o rest
             ELSE <<"strip_c(" \o e \o ")">> \o rest

\* variant: character removal applied before the hash directive
StageOrderRemoveFirst == <<"remove", "hash", "bold", "em">>

\* variant: bold applied before character removal
StageOrderBoldBeforeRemove == <<"hash", "bold", "remove", "em">>

\* the four patterns, in the order the function applies them
StageOrder == <<"hash", "remove", "bold", "em">>

\* open and close character of each pattern:  OO([^C]+)CC
Delim(st) ==
    CASE st = "hash"   -> [open |-> "[", close |-> "]"]
      [] st = "remove" -> [open |-> "(", close |-> ")"]
      [] st = "bold"   -> [open |-> "*", close |-> "*"]
      [] st = "em"     -> [open |-> "_", close |-> "_"]

\* length of the longest run of elements other than x starting at p
RunLen(s, p, x) ==
    MinOf({q \in p..(Len(s) + 1) : q = Len(s) + 1 \/ s[q] = x}) - p

\* minimum number of characters the group ([^C]+) must match
MinGroup == 1

\* index of the last element of the match starting at p, or 0 if the
\* pattern does not match there
MatchAt(s, p, st) ==
    LET d == Delim(st)
        n == RunLen(s, p + 2, d.close)
        e == p + 2 + n + 1
    IN  IF /\ p + 1 <= Len(s)
           /\ s[p] = d.open
           /\ s[p + 1] = d.open
           /\ n >= MinGroup
           /\ e <= Len(s)
           /\ s[e - 1] = d.close
           /\ s[e] = d.close
        THEN e ELSE 0

\* variant: the wrapping stages trim the enclosed text
ReplTrimmed(st, g) ==
    CASE st = "hash"   -> md5_hash(g)
      [] st = "remove" -> remove_c_chars(g)
      [] st = "bold"   -> Tag(<<"b">>) \o strip(g) \o Tag(<<"/", "b">>)
      [] st = "em"     -> Tag(<<"e", "m">>) \o strip(g) \o Tag(<<"/", "e", "m">>)

\* replacement for a match whose group(1) is g
Repl(st, g) ==
    CASE st = "hash"   -> md5_hash(g)
      [] st = "remove" -> remove_c_chars(g)
      [] st = "bold"   -> Tag(<<"b">>) \o g \o Tag(<<"/", "b">>)
      [] st = "em"     -> Tag(<<"e", "m">>) \o g \o Tag(<<"/", "e", "m">>)

\* re.sub(pattern, repl, s): leftmost non-overlapping matches, from p on
RECURSIVE re_sub(_, _, _)
re_sub(st, s, p) ==
    IF p > Len(s) THEN <<>>
    ELSE LET e == MatchAt(s, p, st)
         IN  IF e = 0
             THEN <<s[p]>> \o re_sub(st, s, p + 1)
             ELSE Repl(st, SubSeq(s, p + 2, e - 2)) \o re_sub(st, s, e + 1)

RECURSIVE ApplyStages(_, _)
ApplyStages(line, k) ==
    IF k = 0 THEN line
    ELSE re_sub(StageOrder[k], ApplyStages(line, k - 1), 1)

parse_inline_formatting(line) == ApplyStages(line, Len(StageOrder))

(***************************************************************************)
(* Inputs of the inline pipeline                                           *)
(***************************************************************************)
Tokens ==
    { <<"[", "[">>, <<"]", "]">>, <<"(", "(">>, <<")", ")">>,
      <<"*", "*">>, <<"_", "_">>,
      <<"[">>, <<"]">>, <<"(">>, <<")">>, <<"*">>, <<"_">>,
      <<"c">>, <<"C">>, <<" ">> }

RECURSIVE TextsUpTo(_)
TextsUpTo(n) ==
    IF n = 0 THEN {<<>>}
    ELSE LET prev == TextsUpTo(n - 1)
         IN  prev \cup {t \o k : t \in prev, k \in Tokens}

Wrap(st, T) ==
    LET d == Delim(st)
    IN  <<d.open, d.open>> \o T \o <<d.close, d.close>>

ExampleBoldHash == <<"*", "*", "[", "[", "a", "b", "]", "]", "*", "*">>

InlineInputs ==
    {Wrap(st, T) : st \in {"hash", "remove", "bold", "em"},
                   T \in TextsUpTo(MaxParts)}
        \cup {ExampleBoldHash}

NoFile == <<"no file">>

InlineInit ==
    /\ src \in InlineInputs
    /\ cur = src
    /\ stage = 0
    /\ argc = 0
    /\ input_exists = FALSE
    /\ pc = "idle"
    /\ lines = <<>>
    /\ i = 0
    /\ html_content = <<>>
    /\ consumed = <<>>
    /\ output = NoFile
    /\ exit_status = -1

\* line = re.sub(r'\[\[([^\]]+)\]\]', md5_hash(group 1), line)
HashStage ==
    /\ stage = 0
    /\ cur' = re_sub(StageOrder[1], cur, 1)
    /\ stage' = 1
    /\ UNCHANGED <<src, blockVars>>

\* line = re.sub(r'\(\(([^)]+)\)\)', remove_c_chars(group 1), line)
RemoveStage ==
    /\ stage = 1
    /\ cur' = re_sub(StageOrder[2], cur, 1)
    /\ stage' = 2
    /\ UNCHANGED <<src, blockVars>>

\* line = re.sub(r'\*\*([^*]+)\*\*', r'<b>\1</b>', line)
BoldStage ==
    /\ stage = 2
    /\ cur' = re_sub(StageOrder[3], cur, 1)
    /\ stage' = 3
    /\ UNCHANGED <<src, blockVars>>

\* line = re.sub(r'__([^_]+)__', r'<em>\1</em>', line)
EmStage ==
    /\ stage = 3
    /\ cur' = re_sub(StageOrder[4], cur, 1)
    /\ stage' = 4
    /\ UNCHANGED <<src, blockVars>>

InlineNext == HashStage \/ RemoveStage \/ BoldStage \/ EmStage

InlineSpec == InlineInit /\ [][InlineNext]_vars

InlineDone == stage = 4

(***************************************************************************)
(* Block parser                                                            *)
(***************************************************************************)
\* lines[k] of the code (0-based)
LineAt(ls, k) == ls[k + 1]

\* not line.strip()
IsBlank(line) == strip(line) = <<>>

\* len(line) - len(line.lstrip('#'))
LeadingHashes(line) ==
    MinOf({q \in 1..(Len(line) + 1) : q = Len(line) + 1 \/ line[q] # "#"}) - 1

Digit(n) == <<"0", "1", "2", "3", "4", "5", "6", "7", "8", "9">>[n + 1]

\* f'<{tag}>{text}</{tag}>'
Element(tag, text) == Tag(tag) \o text \o Tag(<<"/">> \o tag)

\* highest header level, 1 <= level <= 6
MaxLevel == 6

\* 1 <= level <= 6 and line[level:level + 1] == ' '
IsHeaderLine(line) ==
    LET level == LeadingHashes(line)
    IN  /\ 1 <= level
        /\ level <= MaxLevel
        /\ Len(line) > level
        /\ line[level + 1] = " "

\* f'<h{level}>{header_text}</h{level}>'
HeaderHtml(line) ==
    LET level == LeadingHashes(line)
        header_text == strip(SubSeq(line, level + 2, Len(line)))
    IN  Element(<<"h", Digit(level)>>, parse_inline_formatting(header_text))

\* variant: the blank line that ends a list is left at the cursor
RECURSIVE list_loop_keep_blank(_, _, _, _)
list_loop_keep_blank(ls, k, prefix, acc) ==
    IF k >= Len(ls) THEN [content |-> acc, next |-> k]
    ELSE LET line == LineAt(ls, k)
         IN  IF startswith(line, prefix)
             THEN LET item_text ==
                          strip(SubSeq(line, Len(prefix) + 1, Len(line)))
                  IN  list_loop_keep_blank(ls, k + 1, prefix,
                          Append(acc, Element(<<"l", "i">>,
                                     parse_inline_formatting(item_text))))
             ELSE [content |-> acc, next |-> k]

\* the while loop of process_list_block from index k, content so far acc
RECURSIVE list_loop(_, _, _, _)
list_loop(ls, k, prefix, acc) ==
    IF k >= Len(ls) THEN [content |-> acc, next |-> k]
    ELSE LET line == LineAt(ls, k)
         IN  IF startswith(line, prefix)
             THEN LET item_text ==
                          strip(SubSeq(line, Len(prefix) + 1, Len(line)))
                  IN  list_loop(ls, k + 1, prefix,
                          Append(acc, Element(<<"l", "i">>,
                                     parse_inline_formatting(item_text))))
             ELSE IF IsBlank(line)
             THEN [content |-> acc, next |-> k + 1]
             ELSE [content |-> acc, next |-> k]

process_list_block(ls, start_index, list_char, list_tag) ==
    LET r == list_loop(ls, start_index, <<list_char, " ">>, <<Tag(list_tag)>>)
    IN  [content |-> Append(r.content, Tag(<<"/">> \o list_tag)),
         next |-> r.next]

\* the inner while loop of the paragraph branch
RECURSIVE paragraph_loop(_, _, _)
paragraph_loop(ls, k, acc) ==
    IF k >= Len(ls) THEN [paragraph_lines |-> acc, next |-> k]
    ELSE LET current_line == LineAt(ls, k)
         IN  IF \/ IsBlank(current_line)
                \/ startswith(current_line, <<"#">>)
                \/ startswith(current_line, <<"-", " ">>)
                \/ startswith(current_line, <<"*", " ">>)
             THEN [paragraph_lines |-> acc, next |-> k]
             ELSE paragraph_loop(ls, k + 1, Append(acc, current_line))

\* sep.join(parts)
RECURSIVE join(_, _)
join(sep, parts) ==
    IF parts = <<>> THEN <<>>
    ELSE IF Len(parts) = 1 THEN parts[1]
    ELSE parts[1] \o sep \o join(sep, Tail(parts))

\* '\n'.join(html_content) + '\n'
Rendered(content) == join(<<"\n">>, content) \o <<"\n">>

\* history: lines from index a up to, not including, index b are consumed
Consume(c, a, b) ==
    [k \in 1..Len(c) |-> IF a < k /\ k <= b THEN c[k] + 1 ELSE c[k]]

(***************************************************************************)
(* Input documents                                                         *)
(***************************************************************************)
HashLine(n, tail) == Repeat("#", n) \o tail

LineSet ==
    {HashLine(n, <<" ", "a">>) : n \in {1, MaxLevel, MaxHashes}} \cup
    { <<>>, <<" ", "", " ">>,
      <<"#", "a">>,
      <<"-", " ", "a">>,
      <<"*", " ", "a">>,
      <<"a">>,
      <<"*", "*", "c", "*", "*">> }

RECURSIVE DocsUpTo(_)
DocsUpTo(n) ==
    IF n = 0 THEN {<<>>}
    ELSE LET prev == DocsUpTo(n - 1)
         IN  prev \cup {Append(d, l) : d \in prev, l \in LineSet}

ExampleListDoc ==
    << <<"-", " ", "A", "p", "p", "l", "e">>,
       <<"-", " ", "B", "a", "n", "a", "n", "a">>,
       <<>>,
       <<"*", " ", "F", "i", "r", "s", "t">>,
       <<"*", " ", "S", "e", "c", "o", "n", "d">> >>

ExampleListHtml ==
    << <<"<", "u", "l", ">">>,
       <<"<", "l", "i", ">", "A", "p", "p", "l", "e", "<", "/", "l", "i", ">">>,
       <<"<", "l", "i", ">", "B", "a", "n", "a", "n", "a",
         "<", "/", "l", "i", ">">>,
       <<"<", "/", "u", "l", ">">>,
       <<"<", "o", "l", ">">>,
       <<"<", "l", "i", ">", "F", "i", "r", "s", "t", "<", "/", "l", "i", ">">>,
       <<"<", "l", "i", ">", "S", "e", "c", "o", "n", "d",
         "<", "/", "l", "i", ">">>,
       <<"<", "/", "o", "l", ">">> >>

Docs == DocsUpTo(MaxLines) \cup {ExampleListDoc}

(***************************************************************************)
(* Driver and block loop                                                   *)
(***************************************************************************)
Init ==
    /\ argc \in 0..MaxArgs
    /\ input_exists \in BOOLEAN
    /\ pc = "main"
    /\ lines = <<>>
    /\ i = 0
    /\ html_content = <<>>
    /\ consumed = <<>>
    /\ output = NoFile
    /\ exit_status = -1
    /\ src = <<>>
    /\ cur = <<>>
    /\ stage = -1

\* variant: the usage check admits a single argument
TooFewArgsOffByOne(n) == n + 1 < 2

\* len(sys.argv) < 3, n the number of positional arguments
TooFewArgs(n) == n + 1 < 3

Exit(kind, status) ==
    /\ pc' = kind
    /\ exit_status' = status

UsageError ==
    /\ pc = "main"
    /\ TooFewArgs(argc)
    /\ Exit("usage", 1)
    /\ UNCHANGED <<argc, input_exists, lines, i, html_content, consumed,
                   output, inlineVars>>

MissingInput ==
    /\ pc = "main"
    /\ ~TooFewArgs(argc)
    /\ ~input_exists
    /\ Exit("missing", 1)
    /\ UNCHANGED <<argc, input_exists, lines, i, html_content, consumed,
                   output, inlineVars>>

\* open(markdown_file) or f.readlines() raises
ReadFails ==
    /\ pc = "main"
    /\ ~TooFewArgs(argc)
    /\ input_exists
    /\ Exit("failed", 1)
    /\ UNCHANGED <<argc, input_exists, lines, i, html_content, consumed,
                   output, inlineVars>>

ReadInput ==
    /\ pc = "main"
    /\ ~TooFewArgs(argc)
    /\ input_exists
    /\ \E d \in Docs :
           /\ lines' = d
           /\ consumed' = [k \in 1..Len(d) |-> 0]
    /\ html_content' = <<>>
    /\ i' = 0
    /\ pc' = "loop"
    /\ UNCHANGED <<argc, input_exists, output, exit_status, inlineVars>>

AtLine == pc = "loop" /\ i < Len(lines)

SkipBlank ==
    /\ AtLine
    /\ IsBlank(LineAt(lines, i))
    /\ i' = i + 1
    /\ consumed' = Consume(consumed, i, i + 1)
    /\ UNCHANGED <<argc, input_exists, pc, lines, html_content, output,
                   exit_status, inlineVars>>

Header ==
    /\ AtLine
    /\ ~IsBlank(LineAt(lines, i))
    /\ startswith(LineAt(lines, i), <<"#">>)
    /\ IsHeaderLine(LineAt(lines, i))
    /\ html_content' = Append(html_content, HeaderHtml(LineAt(lines, i)))
    /\ i' = i + 1
    /\ consumed' = Consume(consumed, i, i + 1)
    /\ UNCHANGED <<argc, input_exists, pc, lines, output, exit_status,
                   inlineVars>>

\* neither blank nor taken by the header branch
FallsToLists(line) ==
    /\ ~IsBlank(line)
    /\ ~(startswith(line, <<"#">>) /\ IsHeaderLine(line))

UnorderedList ==
    /\ AtLine
    /\ FallsToLists(LineAt(lines, i))
    /\ startswith(LineAt(lines, i), <<"-", " ">>)
    /\ LET r == process_list_block(lines, i, "-", <<"u", "l">>)
       IN  /\ html_content' = html_content \o r.content
           /\ i' = r.next
           /\ consumed' = Consume(consumed, i, r.next)
    /\ UNCHANGED <<argc, input_exists, pc, lines, output, exit_status,
                   inlineVars>>

OrderedList ==
    /\ AtLine
    /\ FallsToLists(LineAt(lines, i))
    /\ ~startswith(LineAt(lines, i), <<"-", " ">>)
    /\ startswith(LineAt(lines, i), <<"*", " ">>)
    /\ LET r == process_list_block(lines, i, "*", <<"o", "l">>)
       IN  /\ html_content' = html_content \o r.content
           /\ i' = r.next
           /\ consumed' = Consume(consumed, i, r.next)
    /\ UNCHANGED <<argc, input_exists, pc, lines, output, exit_status,
                   inlineVars>>

Paragraph ==
    /\ AtLine
    /\ FallsToLists(LineAt(lines, i))
    /\ ~startswith(LineAt(lines, i), <<"-", " ">>)
    /\ ~startswith(LineAt(lines, i), <<"*", " ">>)
    /\ Len(html_content) < MaxOut
    /\ LET r == paragraph_loop(lines, i, <<>>)
           paragraph_text == join(<<" ">>, r.paragraph_lines)
       IN  /\ html_content' =
                  Append(html_content,
                         Element(<<"p">>,
                                 parse_inline_formatting(paragraph_text)))
           /\ i' = r.next
           /\ consumed' = Consume(consumed, i, r.next)
    /\ UNCHANGED <<argc, input_exists, pc, lines, output, exit_status,
                   inlineVars>>

AtEnd == pc = "loop" /\ i >= Len(lines)

WriteOutput ==
    /\ AtEnd
    /\ output' = Rendered(html_content)
    /\ Exit("ok", 0)
    /\ UNCHANGED <<argc, input_exists, lines, i, html_content, consumed,
                   inlineVars>>

\* open(html_file, 'w') or html.write raises: the file is not created, or
\* holds the part of the text written before the failure
WriteFails ==
    /\ AtEnd
    /\ output' \in {NoFile} \cup
           {SubSeq(Rendered(html_content), 1, n) :
               n \in 0..(Len(Rendered(html_content)) - 1)}
    /\ Exit("failed", 1)
    /\ UNCHANGED <<argc, input_exists, lines, i, html_content, consumed,
                   inlineVars>>

Next ==
    \/ UsageError
    \/ MissingInput
    \/ ReadFails
    \/ ReadInput
    \/ SkipBlank
    \/ Header
    \/ UnorderedList
    \/ OrderedList
    \/ Paragraph
    \/ WriteOutput
    \/ WriteFails

Spec == Init /\ [][Next]_vars


(***************************************************************************)
(* Properties of the block loop and the driver (checked under Spec)        *)
(***************************************************************************)
CurLine == LineAt(lines, i)

\* a line of 1 to 6 '#' followed by a space
ValidHeader(L) ==
    \E n \in 1..6 :
        /\ Len(L) > n
        /\ \A j \in 1..n : L[j] = "#"
        /\ L[n + 1] = " "

HashCount(L) == CHOOSE n \in 1..6 :
    /\ Len(L) > n
    /\ \A j \in 1..n : L[j] = "#"
    /\ L[n + 1] = " "

StartsList(L, m) == Len(L) >= 2 /\ L[1] = m /\ L[2] = " "

StartsBlock(L) == ValidHeader(L) \/ StartsList(L, "-") \/ StartsList(L, "*")

\* <p>...</p> built from the lines at 0-based indices a .. b-1
ParagraphOf(a, b) ==
    <<"<", "p", ">">>
        \o parse_inline_formatting(join(<<" ">>, SubSeq(lines, a + 1, b)))
        \o <<"<", "/", "p", ">">>

\* C1: on every line sequence the block loop terminates with the cursor at
\* len(lines).  The loop is deterministic and what an iteration does depends
\* on lines and the cursor alone, so it terminates exactly when every
\* iteration moves the cursor forward, staying within the document: an
\* iteration that leaves the cursor in place repeats forever.
C1_Terminates ==
    [][AtLine => (i' > i /\ i' <= Len(lines) /\ pc' = "loop")]_vars

\* C2: at the cursor, a non-blank line beginning with '#' is rendered as
\* <hN>text</hN> with the cursor advanced by 1 when 1 to 6 '#' are followed
\* by a space, and otherwise is consumed into a <p>...</p> fragment that
\* contains it.
C2_HeaderOrParagraph ==
    [][(AtLine /\ ~IsBlank(CurLine) /\ CurLine[1] = "#") =>
        IF ValidHeader(CurLine)
        THEN LET n == HashCount(CurLine)
                 text == strip(SubSeq(CurLine, n + 2, Len(CurLine)))
             IN  /\ i' = i + 1
                 /\ html_content' =
                        Append(html_content,
                               <<"<", "h", Digit(n), ">">>
                                   \o parse_inline_formatting(text)
                                   \o <<"<", "/", "h", Digit(n), ">">>)
        ELSE \E m \in 1..(Len(lines) - i) :
                 /\ i' = i + m
                 /\ html_content' =
                        Append(html_content, ParagraphOf(i, i + m))
      ]_vars

\* number of consecutive lines from index k on that start with marker m
MarkerRun(k, m) ==
    CHOOSE n \in 0..(Len(lines) - k) :
        /\ \A j \in k..(k + n - 1) : StartsList(LineAt(lines, j), m)
        /\ k + n = Len(lines) \/ ~StartsList(LineAt(lines, k + n), m)

ListItem(L) ==
    <<"<", "l", "i", ">">>
        \o parse_inline_formatting(strip(SubSeq(L, 3, Len(L))))
        \o <<"<", "/", "l", "i", ">">>

\* C3: at a line starting with the marker ("- " for ul, "* " for ol) the
\* parser emits the open tag, one <li> per consecutive marker line (text
\* after the marker, trimmed and inline-formatted) and the close tag; a
\* blank line that ends the list is consumed, any other ending line is
\* left at the cursor for the next iteration; and the Apple/Banana,
\* First/Second document yields the eight expected lines.
C3_ListCollection ==
    [][/\ \A m \in {"-", "*"} :
            (AtLine /\ StartsList(CurLine, m)) =>
                LET n == MarkerRun(i, m)
                    tag == IF m = "-" THEN <<"u", "l">> ELSE <<"o", "l">>
                    endsBlank == /\ i + n < Len(lines)
                                 /\ IsBlank(LineAt(lines, i + n))
                IN  /\ n >= 1
                    /\ html_content' =
                           html_content
                               \o << <<"<">> \o tag \o <<">">> >>
                               \o [j \in 1..n |->
                                      ListItem(LineAt(lines, i + j - 1))]
                               \o << <<"<", "/">> \o tag \o <<">">> >>
                    /\ i' = i + n + (IF endsBlank THEN 1 ELSE 0)
                    /\ pc' = "loop"
       /\ (pc' = "ok" /\ lines' = ExampleListDoc)
              => html_content' = ExampleListHtml
      ]_vars

C3_Witness ==
    /\ pc = "ok"
    /\ lines = ExampleListDoc
    /\ html_content = ExampleListHtml
    /\ i = 5

\* C4: from a line matched by no other rule the parser consumes the
\* consecutive lines that are non-blank and start no header (1 to 6 '#' and
\* a space) and no list, joins them with one space, formats the result and
\* emits one <p>...</p>; the stopping line is not consumed.
C4_ParagraphCollection ==
    [][(AtLine /\ ~IsBlank(CurLine) /\ ~StartsBlock(CurLine)) =>
        LET stop == MinOf({k \in (i + 1)..Len(lines) :
                              \/ k = Len(lines)
                              \/ IsBlank(LineAt(lines, k))
                              \/ StartsBlock(LineAt(lines, k))})
        IN  /\ i' = stop
            /\ html_content' = Append(html_content, ParagraphOf(i, stop))
      ]_vars

Finished == exit_status # -1

\* C9 (as stated): any argument count other than exactly two, a missing
\* input or an exception exits with status 1, with no output written in
\* the first two cases; only a successful conversion exits with 0.
C9_ExactlyTwoArgs ==
    Finished =>
        /\ argc # 2 => (exit_status = 1 /\ output = NoFile)
        /\ (argc = 2 /\ ~input_exists) => (exit_status = 1 /\ output = NoFile)
        /\ pc = "failed" => exit_status = 1
        /\ exit_status = 0 => pc = "ok"

\* C9 (amended): fewer than two positional arguments, a missing input path
\* or an exception during conversion exits with status 1, and in the first
\* two cases no output file is written; only a successful conversion exits
\* with status 0 (arguments beyond the second are ignored).
C9_FewerThanTwoArgs ==
    Finished =>
        /\ exit_status \in {0, 1}
        /\ argc < 2 => (exit_status = 1 /\ output = NoFile)
        /\ (argc >= 2 /\ ~input_exists)
               => (exit_status = 1 /\ output = NoFile)
        /\ pc = "failed" => exit_status = 1
        /\ exit_status = 0 =>
               /\ pc = "ok"
               /\ argc >= 2
               /\ input_exists
               /\ i = Len(lines)
               /\ output = Rendered(html_content)

C9_Witness ==
    /\ Finished
    /\ argc = 1
    /\ input_exists
    /\ exit_status = 1
    /\ output = NoFile

\* C10: the cursor never moves backward, every step that emits a fragment
\* consumes at least one line, no line is consumed twice, and when the
\* loop has ended every line has been consumed exactly once.
C10_LineConsumption ==
    [][/\ i' >= i
       /\ (pc = "loop" /\ html_content' # html_content) => i' > i
       /\ \A k \in 1..Len(consumed') : consumed'[k] <= 1
       /\ pc' = "ok" => \A k \in 1..Len(consumed') : consumed'[k] = 1
      ]_vars

(***************************************************************************)
(* Properties of the inline pipeline (checked under InlineSpec)            *)
(***************************************************************************)
\* s is  oo T cc  for some text T
IsWrapped(s, o, c) ==
    /\ Len(s) >= 4
    /\ s[1] = o
    /\ s[2] = o
    /\ s[Len(s) - 1] = c
    /\ s[Len(s)] = c

Inner(s) == SubSeq(s, 3, Len(s) - 2)

HasChar(T, x) == \E k \in 1..Len(T) : T[k] = x

HasPair(T, x) == \E k \in 1..(Len(T) - 1) : T[k] = x /\ T[k + 1] = x

\* T contains a span  oo...cc  enclosing at least one element, none of
\* them the closing character
HasSpan(T, o, c) ==
    \E p \in 1..Len(T), q \in 1..Len(T) :
        /\ q >= p + 3
        /\ q + 1 <= Len(T)
        /\ T[p] = o /\ T[p + 1] = o
        /\ T[q] = c /\ T[q + 1] = c
        /\ \A k \in (p + 2)..(q - 1) : T[k] # c

WithoutC(T) == SelectSeq(T, LAMBDA e : e \notin {"c", "C"})

Bolded(T) == <<"<", "b", ">">> \o T \o <<"<", "/", "b", ">">>

Emphasised(T) == <<"<", "e", "m", ">">> \o T \o <<"<", "/", "e", "m", ">">>

\* C5 (as stated): for every text T containing no "]]", formatting
\* "[[" + T + "]]" returns the MD5 digest of T.
C5_HashAnyText ==
    (InlineDone /\ IsWrapped(src, "[", "]") /\ ~HasPair(Inner(src), "]"))
        => cur = md5_hash(Inner(src))

\* C5 (amended): for every non-empty text T containing no ']' character,
\* formatting "[[" + T + "]]" returns exactly the MD5 digest of T, and no
\* delimiter character is left in the result.
C5_HashNonEmptyNoBracket ==
    (/\ InlineDone
     /\ IsWrapped(src, "[", "]")
     /\ Inner(src) # <<>>
     /\ ~HasChar(Inner(src), "]"))
        => /\ cur = md5_hash(Inner(src))
           /\ \A k \in 1..Len(cur) : cur[k] \notin {"[", "]"}

C5_Witness ==
    /\ InlineDone
    /\ IsWrapped(src, "[", "]")
    /\ ~HasChar(Inner(src), "]")
    /\ HasSpan(Inner(src), "(", ")")
    /\ Len(cur) = 1
    /\ ~IsChar(cur[1])

\* C6 (as stated): for every text T containing no ')', formatting
\* "((" + T + "))" returns T with every 'c' and 'C' deleted.
C6_RemoveAnyText ==
    (InlineDone /\ IsWrapped(src, "(", ")") /\ ~HasChar(Inner(src), ")"))
        => cur = WithoutC(Inner(src))

\* C6 (amended): for every non-empty text T containing no ')', in which no
\* [[...]] span occurs and whose text after the deletion contains no
\* **...** or __...__ span, formatting "((" + T + "))" returns exactly T
\* with every 'c' and 'C' deleted and all other characters kept in order.
C6_RemoveNonEmptyPlain ==
    (/\ InlineDone
     /\ IsWrapped(src, "(", ")")
     /\ Inner(src) # <<>>
     /\ ~HasChar(Inner(src), ")")
     /\ ~HasSpan(Inner(src), "[", "]")
     /\ ~HasSpan(WithoutC(Inner(src)), "*", "*")
     /\ ~HasSpan(WithoutC(Inner(src)), "_", "_"))
        => cur = WithoutC(Inner(src))

C6_Witness ==
    /\ InlineDone
    /\ IsWrapped(src, "(", ")")
    /\ ~HasChar(Inner(src), ")")
    /\ HasChar(Inner(src), "C")
    /\ HasChar(Inner(src), " ")
    /\ HasChar(Inner(src), "*")
    /\ cur = WithoutC(Inner(src))
    /\ Len(cur) = Len(Inner(src)) - 1

\* C7 (as stated): for every T without '*', "**" + T + "**" yields
\* "<b>" + T + "</b>", and for every T without '_', "__" + T + "__" yields
\* "<em>" + T + "</em>".
C7_WrapAnyText ==
    InlineDone =>
        /\ (IsWrapped(src, "*", "*") /\ ~HasChar(Inner(src), "*"))
               => cur = Bolded(Inner(src))
        /\ (IsWrapped(src, "_", "_") /\ ~HasChar(Inner(src), "_"))
               => cur = Emphasised(Inner(src))

\* C7 (amended): for every non-empty T without '*' in which no [[...]],
\* ((...)) or __...__ span occurs, "**" + T + "**" yields exactly
\* "<b>" + T + "</b>"; for every non-empty T without '_' in which no
\* [[...]], ((...)) or **...** span occurs, "__" + T + "__" yields exactly
\* "<em>" + T + "</em>".
C7_WrapNonEmptyPlain ==
    InlineDone =>
        /\ (/\ IsWrapped(src, "*", "*")
            /\ Inner(src) # <<>>
            /\ ~HasChar(Inner(src), "*")
            /\ ~HasSpan(Inner(src), "[", "]")
            /\ ~HasSpan(Inner(src), "(", ")")
            /\ ~HasSpan(Inner(src), "_", "_"))
               => cur = Bolded(Inner(src))
        /\ (/\ IsWrapped(src, "_", "_")
            /\ Inner(src) # <<>>
            /\ ~HasChar(Inner(src), "_")
            /\ ~HasSpan(Inner(src), "[", "]")
            /\ ~HasSpan(Inner(src), "(", ")")
            /\ ~HasSpan(Inner(src), "*", "*"))
               => cur = Emphasised(Inner(src))

C7_Witness ==
    /\ InlineDone
    /\ IsWrapped(src, "*", "*")
    /\ ~HasChar(Inner(src), "*")
    /\ HasChar(Inner(src), " ")
    /\ HasPair(Inner(src), "_")
    /\ HasChar(Inner(src), "(")
    /\ cur = Bolded(Inner(src))

\* the digest of the raw source text T, as it appears in the result: whole,
\* or with its 'c' digits deleted when it lies in a ((...)) span
DigestsOf(T) ==
    {md5_hash(T)[1], "strip_c(" \o md5_hash(T)[1] \o ")"}

\* raw texts enclosed by "[[" and "]]" in s
RawHashTexts(s) ==
    {SubSeq(s, x[1], x[2]) :
        x \in {y \in (3..Len(s)) \X (1..(Len(s) - 2)) :
                  /\ y[1] <= y[2]
                  /\ s[y[1] - 2] = "[" /\ s[y[1] - 1] = "["
                  /\ s[y[2] + 1] = "]" /\ s[y[2] + 2] = "]"}}

\* the stages named in order, applied one after the other, each to the whole
\* result of the one before
RECURSIVE InOrder(_, _)
InOrder(order, s) ==
    IF order = <<>> THEN s
    ELSE InOrder(Tail(order), re_sub(Head(order), s, 1))

\* T is a non-empty text of 'c' and 'C' characters only
OnlyC(T) == T # <<>> /\ \A k \in 1..Len(T) : T[k] \in {"c", "C"}

\* C8: the stages run strictly in the order hash, removal, bold, emphasis,
\* each on the whole result of the previous one:
\*  - after k stages the text is the source with the first k of hash,
\*    removal, bold, emphasis applied in that order;
\*  - every digest in the result is the digest of raw source text between
\*    "[[" and "]]" (later stages never rewrite the inside of a hash span
\*    first), and a source that is one hash span is rendered as the digest
\*    alone whatever "((", "**" or "__" it encloses;
\*  - removal runs before bold and before emphasis: "**((c))**" yields
\*    "****" and "__((c))__" yields "____", the emptied span leaving nothing
\*    for the wrapping stage to match;
\*  - "**[[ab]]**" yields "<b>" + MD5("ab") + "</b>".
C8_StageOrder ==
    /\ stage \in 0..4
    /\ cur = InOrder(SubSeq(<<"hash", "remove", "bold", "em">>, 1, stage), src)
    /\ InlineDone =>
        /\ \A k \in 1..Len(cur) :
               ~IsChar(cur[k]) =>
                   \E T \in RawHashTexts(src) : cur[k] \in DigestsOf(T)
        /\ (/\ IsWrapped(src, "[", "]")
            /\ Inner(src) # <<>>
            /\ ~HasChar(Inner(src), "]"))
               => (Len(cur) = 1 /\ ~IsChar(cur[1]))
        /\ (/\ IsWrapped(src, "*", "*")
            /\ IsWrapped(Inner(src), "(", ")")
            /\ OnlyC(Inner(Inner(src))))
               => cur = <<"*", "*", "*", "*">>
        /\ (/\ IsWrapped(src, "_", "_")
            /\ IsWrapped(Inner(src), "(", ")")
            /\ OnlyC(Inner(Inner(src))))
               => cur = <<"_", "_", "_", "_">>
        /\ src = ExampleBoldHash
               => cur = Bolded(md5_hash(<<"a", "b">>))

\* "**((C))**" has gone through the four stages: removal emptied the span
\* before bold ran; with bold first the result would be "<b></b>"
C8_Witness ==
    /\ InlineDone
    /\ IsWrapped(src, "*", "*")
    /\ IsWrapped(Inner(src), "(", ")")
    /\ Inner(Inner(src)) = <<"C">>
    /\ cur = <<"*", "*", "*", "*">>
    /\ InOrder(<<"hash", "bold", "remove", "em">>, src) = Bolded(<<>>)

====
